---------------------------- MODULE Spec2Model ----------------------------
(***************************************************************************)
(* A model of the face-attendance PWA: the FaceAPIRecognizer class         *)
(* (src/unnamed/part_000: descriptor store, matching, the enroll and       *)
(* verify polling loops, stop) and the service worker (src/sw.js).         *)
(*                                                                         *)
(* Numbers are JavaScript numbers restricted to the integers plus          *)
(* Infinity, -Infinity and NaN.  Descriptors are short vectors chosen on   *)
(* a line through the origin, so that every Euclidean distance that        *)
(* occurs is a whole number and Math.sqrt is exact on it; thresholds and   *)
(* margins are constructor options, taken in the same unit.                *)
(***************************************************************************)
EXTENDS Integers, Sequences, FiniteSets, TLC

(***************************************************************************)
(* JavaScript numbers                                                      *)
(***************************************************************************)
Fin(n) == [k |-> "fin", v |-> n]
Infinity == [k |-> "inf", v |-> 0]
NegInfinity == [k |-> "ninf", v |-> 0]
NaN == [k |-> "nan", v |-> 0]

\* a < b on numbers: every comparison with NaN is false
NumLt(a, b) ==
  CASE a.k = "nan" \/ b.k = "nan" -> FALSE
    [] a.k = "fin" /\ b.k = "fin" -> a.v < b.v
    [] a.k = "ninf" -> b.k # "ninf"
    [] a.k = "inf" -> FALSE
    [] OTHER -> b.k = "inf"

\* a <= b
NumLe(a, b) == a.k # "nan" /\ b.k # "nan" /\ (a = b \/ NumLt(a, b))

\* a >= b
NumGe(a, b) == NumLe(b, a)

\* a - b
NumSub(a, b) ==
  CASE a.k = "nan" \/ b.k = "nan" -> NaN
    [] a.k = "fin" /\ b.k = "fin" -> Fin(a.v - b.v)
    [] a.k = "fin" -> IF b.k = "inf" THEN NegInfinity ELSE Infinity
    [] b.k = "fin" -> a
    [] OTHER -> IF a.k = b.k THEN NaN ELSE a

\* a + b
NumAdd(a, b) ==
  CASE a.k = "nan" \/ b.k = "nan" -> NaN
    [] a.k = "fin" /\ b.k = "fin" -> Fin(a.v + b.v)
    [] a.k = "fin" -> b
    [] b.k = "fin" -> a
    [] OTHER -> IF a.k = b.k THEN a ELSE NaN

\* a * b (0 times an infinity is NaN)
NumMul(a, b) ==
  CASE a.k = "nan" \/ b.k = "nan" -> NaN
    [] a.k = "fin" /\ b.k = "fin" -> Fin(a.v * b.v)
    [] (a.k = "fin" /\ a.v = 0) \/ (b.k = "fin" /\ b.v = 0) -> NaN
    [] OTHER ->
         LET neg(x) == x.k = "ninf" \/ (x.k = "fin" /\ x.v < 0)
         IN IF neg(a) = neg(b) THEN Infinity ELSE NegInfinity

\* Math.sqrt on a non-negative whole number (exact on the squares)
Sqrt(s) == CHOOSE r \in 0..s : r * r <= s /\ (r + 1) * (r + 1) > s

\* Math.sqrt on a number
NumSqrt(a) ==
  CASE a.k = "fin" /\ a.v >= 0 -> Fin(Sqrt(a.v))
    [] a.k = "inf" -> Infinity
    [] OTHER -> NaN

(***************************************************************************)
(* Inputs                                                                  *)
(***************************************************************************)
\* what the embedding model can return for a face
\* a Float32Array with the given (whole) elements
Vec(ints) == [j \in DOMAIN ints |-> Fin(ints[j])]

Descriptors == {Vec(<<0, 0>>), Vec(<<3, 4>>), Vec(<<6, 8>>)}

\* names people are enrolled under (none of them is the label "Unknown")
Names == {"Alice", "Bob", "Carol"}

\* longest descriptor list handed to replace()
MaxList == 2

\* number of entries of the pose plan (poseInstructions)
NumPoses == 2

\* values the distance threshold and the margin are set to
Thresholds == {4, 5}
Margins == {0, 5, 6}

RECURSIVE SeqsUpTo(_, _)
SeqsUpTo(S, n) ==
  IF n = 0 THEN {<<>>}
  ELSE LET shorter == SeqsUpTo(S, n - 1)
       IN shorter \cup {Append(s, x) : s \in {q \in shorter : Len(q) = n - 1}, x \in S}

(***************************************************************************)
(* The descriptor table: a JavaScript object, i.e. its entries in          *)
(* insertion order (the order Object.keys and Object.entries visit them)   *)
(***************************************************************************)
DbNames(table) == {table[i].name : i \in DOMAIN table}

DbHas(table, n) == n \in DbNames(table)

DbGet(table, n) == table[CHOOSE i \in DOMAIN table : table[i].name = n].list

\* table[n] = list: an existing key keeps its place, a new key goes last
DbSet(table, n, list) ==
  IF DbHas(table, n)
  THEN [i \in DOMAIN table |->
          IF table[i].name = n THEN [name |-> n, list |-> list] ELSE table[i]]
  ELSE Append(table, [name |-> n, list |-> list])

\* delete table[n]
DbDelKeepsAll(table, n) == table

DbDel(table, n) == SelectSeq(table, LAMBDA e : e.name # n)

(***************************************************************************)
(* Matching                                                                *)
(***************************************************************************)
RECURSIVE SumSq(_, _, _, _)
SumSq(a, b, i, s) ==
  IF i > Len(a) \/ i > Len(b) THEN s
  ELSE LET d == NumSub(a[i], b[i]) IN SumSq(a, b, i + 1, NumAdd(s, NumMul(d, d)))

euclidean(a, b) == NumSqrt(SumSq(a, b, 1, Fin(0)))

\* mutant of personBest: keeps the distance to the last stored descriptor
personBestLast(desc, list) ==
  IF list = <<>> THEN Infinity ELSE euclidean(desc, list[Len(list)])

RECURSIVE PersonBestFrom(_, _, _, _)
PersonBestFrom(desc, list, i, pb) ==
  IF i > Len(list) THEN pb
  ELSE LET dist == euclidean(desc, list[i])
       IN PersonBestFrom(desc, list, i + 1, IF NumLt(dist, pb) THEN dist ELSE pb)

personBest(desc, list) == PersonBestFrom(desc, list, 1, Infinity)

\* mutant of updateTop2: a new best forgets to demote the old best
updateTop2NoDemote(m, name, pb) ==
  IF NumLt(pb, m.bestDist)
  THEN [bestName |-> name, bestDist |-> pb, secondBest |-> m.secondBest]
  ELSE IF NumLt(pb, m.secondBest)
       THEN [m EXCEPT !.secondBest = pb]
       ELSE m

\* "update global top-2"
updateTop2(m, name, pb) ==
  IF NumLt(pb, m.bestDist)
  THEN [bestName |-> name, bestDist |-> pb, secondBest |-> m.bestDist]
  ELSE IF NumLt(pb, m.secondBest)
       THEN [m EXCEPT !.secondBest = pb]
       ELSE m

RECURSIVE MatchFrom(_, _, _, _)
MatchFrom(table, desc, i, m) ==
  IF i > Len(table) THEN m
  ELSE MatchFrom(table, desc, i + 1,
                 updateTop2(m, table[i].name, personBest(desc, table[i].list)))

matchDescriptor(table, desc) ==
  MatchFrom(table, desc, 1,
            [bestName |-> "Unknown", bestDist |-> Infinity, secondBest |-> Infinity])

\* mutant of accept: both comparisons strict
acceptStrict(m, threshold, margin) ==
  /\ NumLt(m.bestDist, Fin(threshold))
  /\ NumLt(Fin(margin), NumSub(m.secondBest, m.bestDist))

\* the acceptance test of verify()
accept(m, threshold, margin) ==
  /\ NumLe(m.bestDist, Fin(threshold))
  /\ NumGe(NumSub(m.secondBest, m.bestDist), Fin(margin))


(***************************************************************************)
(* localStorage and JSON                                                   *)
(***************************************************************************)
\* localStorage.getItem() of a key never set, of a key set to "", and of a key
\* set to a text JSON.parse rejects (a truncated document, say)
NoItem == [kind |-> "null"]
EmptyString == [kind |-> "empty"]
Garbage == [kind |-> "garbage"]

\* JavaScript values as JSON knows them; a JSON text is the value it denotes
JNull == [j |-> "null"]
JNumber(x) == [j |-> "number", x |-> x]
JString(str) == [j |-> "string", s |-> str]
JArray(items) == [j |-> "array", items |-> items]
JObject(entries) == [j |-> "object", entries |-> entries]

\* Array.from(f32): the elements as numbers, each float being exactly a double
ArrayFrom(f32) == JArray([k \in DOMAIN f32 |-> JNumber(f32[k])])

\* ToNumber, as the Float32Array constructor applies it to the elements of a list
ToNumber(v) ==
  CASE v.j = "number" -> v.x
    [] v.j = "null" -> Fin(0)
    [] v.j = "string" /\ v.s = "" -> Fin(0)
    [] OTHER -> NaN

\* new Float32Array(arg) throws a RangeError for a negative length
Float32ArrayThrows(arg) == arg.j = "number" /\ arg.x.k = "fin" /\ arg.x.v < 0

\* new Float32Array(arg): the elements of a list, converted; arg zeros when arg
\* is a number; nothing for null, a string that is no number, a plain object
Float32ArrayOf(arg) ==
  CASE arg.j = "array" -> [k \in DOMAIN arg.items |-> ToNumber(arg.items[k])]
    [] arg.j = "number" /\ arg.x.k = "fin" -> [k \in 1..arg.x.v |-> Fin(0)]
    [] OTHER -> <<>>

\* JSON.stringify on a value: a number that is not finite is written null
RECURSIVE ToJSON(_)
ToJSON(v) ==
  CASE v.j = "number" -> IF v.x.k = "fin" THEN v ELSE JNull
    [] v.j = "array" -> JArray([k \in DOMAIN v.items |-> ToJSON(v.items[k])])
    [] v.j = "object" ->
         JObject([k \in DOMAIN v.entries |->
                    [name |-> v.entries[k].name, value |-> ToJSON(v.entries[k].value)]])
    [] OTHER -> v

JSONstringify(obj) == [kind |-> "json", text |-> ToJSON(obj)]

\* JSON.parse throws a SyntaxError, or returns the value the text denotes
JSONparseThrows(raw) == raw.kind # "json"
JSONparse(raw) == raw.text

\* saveDB(): serializable[name] = this.db[name].map(f32 => Array.from(f32))
PlainOf(table) ==
  JObject([e \in DOMAIN table |->
     [name |-> table[e].name,
      value |-> JArray([k \in DOMAIN table[e].list |-> ArrayFrom(table[e].list[k])])]])

\* the document saveDB() stores for a table
Serialize(table) == JSONstringify(PlainOf(table))

\* loadDB(): obj[name] = obj[name].map(arr => new Float32Array(arr)), for the
\* entries of an object; a value without map(), and a negative length, throw
TableThrows(entries) ==
  \E e \in DOMAIN entries :
     \/ entries[e].value.j # "array"
     \/ \E k \in DOMAIN entries[e].value.items :
          Float32ArrayThrows(entries[e].value.items[k])

TableOf(entries) ==
  [e \in DOMAIN entries |->
     [name |-> entries[e].name,
      list |-> [k \in DOMAIN entries[e].value.items |->
                  Float32ArrayOf(entries[e].value.items[k])]]]

\* Object.keys() of an array: its indices, as strings
IndexKey(i) == CASE i = 1 -> "0" [] i = 2 -> "1" [] OTHER -> "2"

ArrayEntries(items) == [i \in DOMAIN items |-> [name |-> IndexKey(i), value |-> items[i]]]

\* what loadDB() returns: {} is an object with no entry
EmptyStore == [kind |-> "object", table |-> <<>>]

\* loadDB(): {} when there is no item (or ""), and when anything in the try block
\* throws: JSON.parse, Object.keys(null), map() missing, the Float32Array
\* constructor.  Object.keys() of a number or of "" is empty: the loop does not
\* run and the parsed value itself is returned
loadDB(raw) ==
  IF raw \in {NoItem, EmptyString} THEN EmptyStore
  ELSE IF JSONparseThrows(raw) THEN EmptyStore
  ELSE LET obj == JSONparse(raw) IN
       CASE obj.j = "null" -> EmptyStore
         [] obj.j = "number" -> [kind |-> "primitive", table |-> <<>>]
         [] obj.j = "string" ->
              IF obj.s = "" THEN [kind |-> "primitive", table |-> <<>>] ELSE EmptyStore
         [] obj.j = "array" ->
              IF TableThrows(ArrayEntries(obj.items)) THEN EmptyStore
              ELSE [kind |-> "array", table |-> TableOf(ArrayEntries(obj.items))]
         [] OTHER ->
              IF TableThrows(obj.entries) THEN EmptyStore
              ELSE [kind |-> "object", table |-> TableOf(obj.entries)]

(***************************************************************************)
(* State                                                                   *)
(***************************************************************************)
Instances == {1, 2}     \* Recognizer objects, all on the key FaceDB_KEY
Tasks == {1, 2}         \* slots for calls of enroll() and verify() in progress
NoStream == 0           \* video.srcObject = null
Null == <<"null">>      \* detectOne() found no usable face
None == [kind |-> "none"]
Some(x) == [kind |-> "some", v |-> x]

VARIABLES
  storage,            \* the item stored under FaceDB_KEY
  db,                 \* db[i]: this.db of Recognizer i
  running,            \* running[i]: this.running
  srcObject,          \* srcObject[i]: the stream attached to the video, or NoStream
  liveTracks,         \* the streams whose tracks have not been stopped
  distanceThreshold,  \* distanceThreshold[i]
  secondBestMargin,   \* secondBestMargin[i]
  samplesPerPose,     \* samplesPerPose[i]
  call,               \* call[t]: the call in slot t: its locals and where it is suspended
  shown,              \* shown[t]: the last payload verify handed to onResult, and its frame
  matchRet,           \* what the matchDescriptor() call of the last step returned
  loadRet,            \* what the loadDB() call of the last step returned, and for which item
  cancelled,          \* history: the flag was set false while the loop of call t was active
  ideal,              \* history: the table a single shared store would hold
  deletedNames        \* history: deletedNames[i]: names deleted on i and not stored since

rvars == <<storage, db, running, srcObject, liveTracks, distanceThreshold,
           secondBestMargin, samplesPerPose, call, shown, matchRet, loadRet, cancelled,
           ideal, deletedNames>>

\* the service worker's state (src/sw.js)
VARIABLES
  swBuckets,   \* the names caches.keys() lists
  swCache,     \* the entries (request URL, response) of the bucket CACHE_NAME
  swInstall,   \* the install event: where its handler is, and what became of it
  swActivate,  \* the activate event: where its handler is, what it deleted
  swFetch      \* swFetch[f]: the fetch event in slot f and where its handler is

swvars == <<swBuckets, swCache, swInstall, swActivate, swFetch>>

vars == <<rvars, swvars>>

\* what onProgress was last called with
NoProgress == [poseIdx |-> 0, poseCount |-> 0, total |-> 0]

NoCall ==
  [kind |-> "none", inst |-> 0, pc |-> "idle", name |-> "", collected |-> <<>>,
   poseIdx |-> 0, poseCount |-> 0, callbacks |-> 0, progress |-> NoProgress,
   stopAsked |-> FALSE, outcome |-> "none", ret |-> 0]

NoShown == [face |-> FALSE, name |-> "", distance |-> Fin(0), query |-> Null]

InLoop(c) == c.pc \in {"detect", "posePause", "tickPause"}
Ended(c) == c.pc \in {"done", "failed"}
Active(c) == c.pc \notin {"idle", "done", "failed"}

\* the call has ended: its locals are gone, its outcome is what the caller sees
Finish(c, pc, outcome, ret) ==
  [NoCall EXCEPT !.kind = c.kind, !.inst = c.inst, !.name = c.name, !.pc = pc,
                 !.outcome = outcome, !.ret = ret]

\* slot t can take a new call; the stream a call acquires is named after its slot
Free(t) == ~Active(call[t]) /\ t \notin liveTracks /\ \A i \in Instances : srcObject[i] # t

\* the loops of instance i, other than that of call t, see the flag go false
Cancel(i, t) ==
  [u \in Tasks |->
     IF u # t /\ call[u].inst = i /\ InLoop(call[u]) THEN TRUE ELSE cancelled[u]]

(***************************************************************************)
(* Store mutations                                                         *)
(***************************************************************************)
\* mutant of saveDB: merges the table into the stored document
saveDBMerging(raw, table) ==
  LET old == loadDB(raw).table
      kept == SelectSeq(old, LAMBDA e : ~DbHas(table, e.name))
  IN Serialize(kept \o table)

\* mutant of saveDB: nothing is written for a table without entries
saveDBSkipsEmpty(raw, table) == IF table = <<>> THEN raw ELSE Serialize(table)

\* saveDB(): the stored document after saving table over raw
saveDB(raw, table) == Serialize(table)

\* delete(name)
Delete(i, name) ==
  /\ db' = [db EXCEPT ![i] = DbDel(db[i], name)]
  /\ storage' = saveDB(storage, db'[i])
  /\ ideal' = DbDel(ideal, name)
  /\ deletedNames' = [deletedNames EXCEPT ![i] = @ \cup {name}]
  /\ matchRet' = None
  /\ loadRet' = None
  /\ UNCHANGED swvars
  /\ UNCHANGED <<running, srcObject, liveTracks, distanceThreshold, secondBestMargin,
                 samplesPerPose, call, shown, cancelled>>

\* replace(name, descriptors)
Replace(i, name, descriptors) ==
  /\ db' = [db EXCEPT ![i] = DbSet(db[i], name, descriptors)]
  /\ storage' = saveDB(storage, db'[i])
  /\ ideal' = DbSet(ideal, name, descriptors)
  /\ deletedNames' = [deletedNames EXCEPT ![i] = @ \ {name}]
  /\ matchRet' = None
  /\ loadRet' = None
  /\ UNCHANGED swvars
  /\ UNCHANGED <<running, srcObject, liveTracks, distanceThreshold, secondBestMargin,
                 samplesPerPose, call, shown, cancelled>>

\* setThresholds({distanceThreshold, secondBestMargin}); None leaves a value as it is
setThresholds(i, th, mg) ==
  /\ distanceThreshold' = [distanceThreshold EXCEPT ![i] = IF th = None THEN @ ELSE th.v]
  /\ secondBestMargin' = [secondBestMargin EXCEPT ![i] = IF mg = None THEN @ ELSE mg.v]
  /\ matchRet' = None
  /\ loadRet' = None
  /\ UNCHANGED swvars
  /\ UNCHANGED <<storage, db, running, srcObject, liveTracks, samplesPerPose, call,
                 shown, cancelled, ideal, deletedNames>>

\* a direct call of matchDescriptor(desc)
Match(i, desc) ==
  /\ matchRet' = [kind |-> "match", inst |-> i, query |-> desc,
                  result |-> matchDescriptor(db[i], desc)]
  /\ loadRet' = None
  /\ UNCHANGED swvars
  /\ UNCHANGED <<storage, db, running, srcObject, liveTracks, distanceThreshold,
                 secondBestMargin, samplesPerPose, call, shown, cancelled, ideal,
                 deletedNames>>

\* the page is loaded again: new FaceAPIRecognizer(...) on the same key
Construct(i) ==
  /\ \A t \in Tasks : call[t].inst = i => ~Active(call[t])
  /\ srcObject[i] = NoStream
  /\ running' = [running EXCEPT ![i] = FALSE]
  /\ loadDB(storage).kind = "object"
  /\ db' = [db EXCEPT ![i] = loadDB(storage).table]
  /\ deletedNames' = [deletedNames EXCEPT ![i] = @ \ DbNames(loadDB(storage).table)]
  /\ matchRet' = None
  /\ loadRet' = None
  /\ UNCHANGED swvars
  /\ UNCHANGED <<storage, srcObject, liveTracks, distanceThreshold, secondBestMargin,
                 samplesPerPose, call, shown, cancelled, ideal>>

\* a call of loadDB(): what it returns for the item the key holds now
LoadDB(i) ==
  /\ loadRet' = [kind |-> "load", inst |-> i, raw |-> storage, result |-> loadDB(storage)]
  /\ matchRet' = None
  /\ UNCHANGED swvars
  /\ UNCHANGED <<storage, db, running, srcObject, liveTracks, distanceThreshold,
                 secondBestMargin, samplesPerPose, call, shown, cancelled, ideal,
                 deletedNames>>

\* the item under FaceDB_KEY is written by something other than saveDB(): another
\* page of the origin, an older version, a write cut short
ItemOverwritten(raw) ==
  /\ storage' = raw
  /\ matchRet' = None
  /\ loadRet' = None
  /\ UNCHANGED swvars
  /\ UNCHANGED <<db, running, srcObject, liveTracks, distanceThreshold,
                 secondBestMargin, samplesPerPose, call, shown, cancelled, ideal,
                 deletedNames>>

(***************************************************************************)
(* Camera                                                                  *)
(***************************************************************************)
\* stopVideo() on instance i, called by call t (0: by stop())
stopVideo(i, t) ==
  /\ running' = [running EXCEPT ![i] = FALSE]
  /\ liveTracks' = liveTracks \ {srcObject[i]}
  /\ srcObject' = [srcObject EXCEPT ![i] = NoStream]
  /\ cancelled' = Cancel(i, t)

\* history: stop() was called while the call was in progress, wherever it was
StopAsked(i) ==
  [u \in Tasks |->
     IF call[u].inst = i /\ Active(call[u]) THEN [call[u] EXCEPT !.stopAsked = TRUE]
     ELSE call[u]]

\* stop()
stop(i) ==
  /\ stopVideo(i, 0)
  /\ call' = StopAsked(i)
  /\ matchRet' = None
  /\ loadRet' = None
  /\ UNCHANGED swvars
  /\ UNCHANGED <<storage, db, distanceThreshold, secondBestMargin, samplesPerPose,
                 shown, ideal, deletedNames>>

(***************************************************************************)
(* enroll(name) and verify(): one action per stretch between two awaits    *)
(***************************************************************************)
\* a call is made in slot t and suspends in startVideo() on getUserMedia()
StartCall(t, i, kind, name) ==
  /\ call' = [call EXCEPT ![t] = [NoCall EXCEPT !.kind = kind, !.inst = i,
                                                !.pc = "camera", !.name = name]]
  /\ shown' = [shown EXCEPT ![t] = NoShown]
  /\ cancelled' = [cancelled EXCEPT ![t] = FALSE]
  /\ matchRet' = None
  /\ loadRet' = None
  /\ UNCHANGED swvars
  /\ UNCHANGED <<storage, db, running, srcObject, liveTracks, distanceThreshold,
                 secondBestMargin, samplesPerPose, ideal, deletedNames>>

\* enroll(name, onProgress) is called
enrollCall(t, i, name) ==
  /\ Free(t)
  /\ StartCall(t, i, "enroll", name)

\* verify(onResult) is called
verifyCall(t, i) ==
  /\ Free(t)
  /\ StartCall(t, i, "verify", "")

\* getUserMedia() resolves: the stream is attached, video.play() is awaited
CameraGranted(t) ==
  /\ call[t].pc = "camera"
  /\ srcObject' = [srcObject EXCEPT ![call[t].inst] = t]
  /\ liveTracks' = liveTracks \cup {t}
  /\ call' = [call EXCEPT ![t].pc = "play"]
  /\ matchRet' = None
  /\ loadRet' = None
  /\ UNCHANGED swvars
  /\ UNCHANGED <<storage, db, running, distanceThreshold, secondBestMargin,
                 samplesPerPose, shown, cancelled, ideal, deletedNames>>

\* an await rejects and the error leaves the call, which has no try/finally
Throws(t, error) ==
  /\ call' = [call EXCEPT ![t] = Finish(call[t], "failed", error, 0)]
  /\ matchRet' = None
  /\ loadRet' = None
  /\ UNCHANGED swvars
  /\ UNCHANGED <<storage, db, running, srcObject, liveTracks, distanceThreshold,
                 secondBestMargin, samplesPerPose, shown, cancelled, ideal,
                 deletedNames>>

\* getUserMedia() rejects: camera access is refused
CameraDenied(t) ==
  /\ call[t].pc = "camera"
  /\ Throws(t, "CameraError")

\* video.play() rejects
PlayRejected(t) ==
  /\ call[t].pc = "play"
  /\ Throws(t, "CameraError")

\* detectOne() rejects (the models are not loaded, the detector fails)
DetectThrows(t) ==
  /\ call[t].pc = "detect"
  /\ Throws(t, "DetectError")

\* the loop condition of call t, with locals c, when the flag reads run
LoopGoesOn(c, run) == run /\ (c.kind = "verify" \/ c.poseIdx < NumPoses)

\* mutant of LoopExit: a call that collected nothing stores its empty list
LoopExitStoresEmpty(t, c) ==
  LET i == c.inst IN
  /\ stopVideo(i, t)
  /\ IF c.kind = "enroll"
     THEN /\ db' = [db EXCEPT ![i] = DbSet(db[i], c.name, c.collected)]
          /\ storage' = saveDB(storage, db'[i])
          /\ ideal' = DbSet(ideal, c.name, c.collected)
          /\ deletedNames' = [deletedNames EXCEPT ![i] = @ \ {c.name}]
          /\ call' = [call EXCEPT ![t] = Finish(c, "done", "returned", Len(c.collected))]
     ELSE /\ call' = [call EXCEPT ![t] = Finish(c, "done", "returned", 0)]
          /\ UNCHANGED <<storage, db, ideal, deletedNames>>

\* mutant of LoopExit: the collected list is merged into the prior record
LoopExitMerges(t, c) ==
  LET i == c.inst
      prior == IF DbHas(db[i], c.name) THEN DbGet(db[i], c.name) ELSE <<>>
  IN
  /\ stopVideo(i, t)
  /\ IF c.kind = "enroll" /\ c.collected = <<>>
     THEN /\ call' = [call EXCEPT ![t] = Finish(c, "failed", "NoSamples", 0)]
          /\ UNCHANGED <<storage, db, ideal, deletedNames>>
     ELSE IF c.kind = "enroll"
     THEN /\ db' = [db EXCEPT ![i] = DbSet(db[i], c.name, prior \o c.collected)]
          /\ storage' = saveDB(storage, db'[i])
          /\ ideal' = DbSet(ideal, c.name, c.collected)
          /\ deletedNames' = [deletedNames EXCEPT ![i] = @ \ {c.name}]
          /\ call' = [call EXCEPT ![t] = Finish(c, "done", "returned", Len(c.collected))]
     ELSE /\ call' = [call EXCEPT ![t] = Finish(c, "done", "returned", 0)]
          /\ UNCHANGED <<storage, db, ideal, deletedNames>>

\* after the loop: stopVideo(), then enroll throws or stores and returns the count
LoopExit(t, c) ==
  LET i == c.inst IN
  /\ stopVideo(i, t)
  /\ IF c.kind = "enroll" /\ c.collected = <<>>
     THEN /\ call' = [call EXCEPT ![t] = Finish(c, "failed", "NoSamples", 0)]
          /\ UNCHANGED <<storage, db, ideal, deletedNames>>
     ELSE IF c.kind = "enroll"
     THEN /\ db' = [db EXCEPT ![i] = DbSet(db[i], c.name, c.collected)]
          /\ storage' = saveDB(storage, db'[i])
          /\ ideal' = DbSet(ideal, c.name, c.collected)
          /\ deletedNames' = [deletedNames EXCEPT ![i] = @ \ {c.name}]
          /\ call' = [call EXCEPT ![t] = Finish(c, "done", "returned", Len(c.collected))]
     ELSE /\ call' = [call EXCEPT ![t] = Finish(c, "done", "returned", 0)]
          /\ UNCHANGED <<storage, db, ideal, deletedNames>>

\* the loop test with the flag reading run: the next detectOne() call, or the exit
LoopTop(t, c, run) ==
  IF LoopGoesOn(c, run)
  THEN /\ call' = [call EXCEPT ![t] = [c EXCEPT !.pc = "detect"]]
       /\ running' = [running EXCEPT ![c.inst] = run]
       /\ UNCHANGED <<storage, db, srcObject, liveTracks, cancelled, ideal, deletedNames>>
  ELSE LoopExit(t, c)

\* video.play() resolves: startVideo() returns, the flag is set and the loop
\* entered.  A play() that is pending when the stream is detached or replaced
\* does not resolve: the media element rejects it (PlayRejected).
PlayResolved(t) ==
  /\ call[t].pc = "play"
  /\ srcObject[call[t].inst] = t
  /\ LoopTop(t, call[t], TRUE)
  /\ matchRet' = None
  /\ loadRet' = None
  /\ UNCHANGED swvars
  /\ UNCHANGED <<distanceThreshold, secondBestMargin, samplesPerPose, shown>>

\* mutant of EnrollDetected: the pose is complete one sample too late
EnrollDetectedOffByOne(t, res) ==
  LET c == call[t]
      n == c.poseCount + 1
      told == [c EXCEPT !.collected = Append(@, res), !.callbacks = @ + 1,
                        !.progress = [poseIdx |-> c.poseIdx, poseCount |-> n,
                                      total |-> Len(c.collected) + 1]]
  IN
  /\ c.kind = "enroll" /\ c.pc = "detect"
  /\ call' = [call EXCEPT ![t] =
       IF res = Null THEN [c EXCEPT !.pc = "tickPause"]
       ELSE IF n > samplesPerPose[c.inst]
       THEN [told EXCEPT !.poseIdx = @ + 1, !.poseCount = 0, !.pc = "posePause"]
       ELSE [told EXCEPT !.poseCount = n, !.pc = "tickPause"]]
  /\ matchRet' = None
  /\ loadRet' = None
  /\ UNCHANGED swvars
  /\ UNCHANGED <<storage, db, running, srcObject, liveTracks, distanceThreshold,
                 secondBestMargin, samplesPerPose, shown, cancelled, ideal,
                 deletedNames>>

\* enroll: detectOne() resolves with res, a descriptor or Null.  A descriptor is
\* pushed, the pose count incremented and onProgress called with the pose, the
\* count and the total; a complete pose moves on to the next after 500 ms
EnrollDetected(t, res) ==
  LET c == call[t]
      n == c.poseCount + 1
      told == [c EXCEPT !.collected = Append(@, res), !.callbacks = @ + 1,
                        !.progress = [poseIdx |-> c.poseIdx, poseCount |-> n,
                                      total |-> Len(c.collected) + 1]]
  IN
  /\ c.kind = "enroll" /\ c.pc = "detect"
  /\ call' = [call EXCEPT ![t] =
       IF res = Null THEN [c EXCEPT !.pc = "tickPause"]
       ELSE IF n >= samplesPerPose[c.inst]
       THEN [told EXCEPT !.poseIdx = @ + 1, !.poseCount = 0, !.pc = "posePause"]
       ELSE [told EXCEPT !.poseCount = n, !.pc = "tickPause"]]
  /\ matchRet' = None
  /\ loadRet' = None
  /\ UNCHANGED swvars
  /\ UNCHANGED <<storage, db, running, srcObject, liveTracks, distanceThreshold,
                 secondBestMargin, samplesPerPose, shown, cancelled, ideal,
                 deletedNames>>

\* verify: detectOne() resolves with res; the decision is handed to onResult
VerifyDetected(t, res) ==
  LET c == call[t]
      i == c.inst
      m == matchDescriptor(db[i], res)
      name == IF accept(m, distanceThreshold[i], secondBestMargin[i])
              THEN m.bestName ELSE "Unknown"
  IN
  /\ c.kind = "verify" /\ c.pc = "detect"
  /\ shown' = [shown EXCEPT ![t] =
       IF res = Null
       THEN [face |-> FALSE, name |-> "Unknown", distance |-> Fin(0), query |-> Null]
       ELSE [face |-> TRUE, name |-> name, distance |-> m.bestDist, query |-> res]]
  /\ call' = [call EXCEPT ![t].pc = "tickPause"]
  /\ matchRet' = None
  /\ loadRet' = None
  /\ UNCHANGED swvars
  /\ UNCHANGED <<storage, db, running, srcObject, liveTracks, distanceThreshold,
                 secondBestMargin, samplesPerPose, cancelled, ideal, deletedNames>>

\* the 500 ms pause after a pose is complete has elapsed
PosePauseElapsed(t) ==
  /\ call[t].pc = "posePause"
  /\ call' = [call EXCEPT ![t].pc = "tickPause"]
  /\ matchRet' = None
  /\ loadRet' = None
  /\ UNCHANGED swvars
  /\ UNCHANGED <<storage, db, running, srcObject, liveTracks, distanceThreshold,
                 secondBestMargin, samplesPerPose, shown, cancelled, ideal,
                 deletedNames>>

\* the 60 ms pause has elapsed: the loop test is made
TickPauseElapsed(t) ==
  /\ call[t].pc = "tickPause"
  /\ LoopTop(t, call[t], running[call[t].inst])
  /\ matchRet' = None
  /\ loadRet' = None
  /\ UNCHANGED swvars
  /\ UNCHANGED <<distanceThreshold, secondBestMargin, samplesPerPose, shown>>


(***************************************************************************)
(* Service worker (src/sw.js)                                              *)
(***************************************************************************)
CACHE_NAME == "face-attendance-v1"

APP_SHELL ==
  {"./", "./face.html", "./face-api.js", "./vendor/face-api.min.js",
   "./manifest.webmanifest", "./style.css", "./icons/apple-touch-icon.png",
   "./icons/icon-192.png", "./icons/icon-256.png", "./icons/icon-384.png",
   "./icons/icon-512.png",
   "https://cdn.jsdelivr.net/npm/face-api.js@0.22.2/dist/face-api.min.js"}

\* location.origin of the worker, and the origin of the CDN of the shell list
Origin == "https://app.example"
CdnOrigin == "https://cdn.jsdelivr.net"

\* new URL(...): origin, pathname (its "/" and its segments, in order), search
URL(origin, pathname, search) ==
  [origin |-> origin, pathname |-> pathname, search |-> search]

\* the URL a request for an entry of APP_SHELL has (relative to the worker's)
ShellURL(u) ==
  CASE u = "./" -> URL(Origin, <<"/">>, "")
    [] u = "./face.html" -> URL(Origin, <<"/", "face.html">>, "")
    [] u = "./face-api.js" -> URL(Origin, <<"/", "face-api.js">>, "")
    [] u = "./vendor/face-api.min.js" ->
         URL(Origin, <<"/", "vendor", "/", "face-api.min.js">>, "")
    [] u = "./manifest.webmanifest" -> URL(Origin, <<"/", "manifest.webmanifest">>, "")
    [] u = "./style.css" -> URL(Origin, <<"/", "style.css">>, "")
    [] u = "./icons/apple-touch-icon.png" ->
         URL(Origin, <<"/", "icons", "/", "apple-touch-icon.png">>, "")
    [] u = "./icons/icon-192.png" -> URL(Origin, <<"/", "icons", "/", "icon-192.png">>, "")
    [] u = "./icons/icon-256.png" -> URL(Origin, <<"/", "icons", "/", "icon-256.png">>, "")
    [] u = "./icons/icon-384.png" -> URL(Origin, <<"/", "icons", "/", "icon-384.png">>, "")
    [] u = "./icons/icon-512.png" -> URL(Origin, <<"/", "icons", "/", "icon-512.png">>, "")
    [] OTHER ->
         URL(CdnOrigin, <<"/", "npm", "/", "face-api.js@0.22.2", "/", "dist", "/",
                          "face-api.min.js">>, "")

\* a response: res.ok, res.type, and which copy of the resource its body is
Response(ok, type, body) == [kind |-> "response", ok |-> ok, type |-> type, body |-> body]

\* undefined: cache.match() found nothing
NoResponse == [kind |-> "undefined"]

\* cache.match(req, {ignoreVary: true}) on the entries of the bucket
cacheMatch(cache, url) ==
  IF \E e \in cache : e.url = url
  THEN (CHOOSE e \in cache : e.url = url).res
  ELSE NoResponse

\* cache.put(req, res): the entry of the request's URL is res, old or new
cachePut(cache, url, res) ==
  {e \in cache : e.url # url} \cup {[url |-> url, res |-> res]}

\* cache.addAll(list), every request having succeeded: one entry per URL
addAll(cache, list) ==
  LET urls == {ShellURL(u) : u \in list} IN
  {e \in cache : e.url \notin urls} \cup
  {[url |-> ShellURL(u),
    res |-> Response(TRUE, IF ShellURL(u).origin = Origin THEN "basic" ELSE "cors", "v1")]
     : u \in list}

\* the install event is dispatched; the handler suspends on caches.open()
InstallEvent ==
  /\ swInstall.pc = "none"
  /\ swInstall' = [swInstall EXCEPT !.pc = "open"]
  /\ UNCHANGED <<swBuckets, swCache, swActivate, swFetch>>
  /\ UNCHANGED rvars

\* caches.open(CACHE_NAME) resolves (creating the bucket); cache.addAll() is awaited
InstallOpened ==
  /\ swInstall.pc = "open"
  /\ swBuckets' = swBuckets \cup {CACHE_NAME}
  /\ swInstall' = [swInstall EXCEPT !.pc = "addAll"]
  /\ UNCHANGED <<swCache, swActivate, swFetch>>
  /\ UNCHANGED rvars

\* caches.open() rejects (storage is not available): outside the try block
InstallOpenFails ==
  /\ swInstall.pc = "open"
  /\ swInstall' = [swInstall EXCEPT !.pc = "end", !.promise = "rejected"]
  /\ UNCHANGED <<swBuckets, swCache, swActivate, swFetch>>
  /\ UNCHANGED rvars

\* mutant of InstallAddAllSettles: no try/catch around cache.addAll()
InstallAddAllNoCatch(failed) ==
  /\ swInstall.pc = "addAll"
  /\ swCache' = IF failed = {} THEN addAll(swCache, APP_SHELL) ELSE swCache
  /\ swInstall' = IF failed = {}
                  THEN [pc |-> "end", precache |-> "stored", failed |-> failed,
                        skipWaiting |-> TRUE, promise |-> "resolved"]
                  ELSE [pc |-> "end", precache |-> "failed", failed |-> failed,
                        skipWaiting |-> FALSE, promise |-> "rejected"]
  /\ UNCHANGED <<swBuckets, swActivate, swFetch>>
  /\ UNCHANGED rvars

\* cache.addAll(APP_SHELL) settles, the requests of `failed` having failed: it
\* stores all the responses or none; a rejection is caught; skipWaiting() follows
InstallAddAllSettles(failed) ==
  /\ swInstall.pc = "addAll"
  /\ swCache' = IF failed = {} THEN addAll(swCache, APP_SHELL) ELSE swCache
  /\ swInstall' = [pc |-> "end", precache |-> IF failed = {} THEN "stored" ELSE "failed",
                   failed |-> failed, skipWaiting |-> TRUE, promise |-> "resolved"]
  /\ UNCHANGED <<swBuckets, swActivate, swFetch>>
  /\ UNCHANGED rvars

\* buckets an earlier version of the worker, or the page, may have left behind
OldBuckets == {"face-attendance-v0", "other-cache"}

NoActivate ==
  [pc |-> "none", keys |-> {}, pending |-> {}, deleted |-> {}, claimed |-> FALSE,
   promise |-> "pending"]

\* mutant of ToDelete: no filter, every bucket listed is deleted
ToDeleteAll(keys) == keys

\* keys.filter(k => k !== CACHE_NAME)
ToDelete(keys) == {k \in keys : k # CACHE_NAME}

\* the activate event is dispatched to the installed worker; caches.keys() is awaited
ActivateEvent ==
  /\ swInstall.pc = "end" /\ swInstall.promise = "resolved"
  /\ swActivate.pc = "none"
  /\ swActivate' = [swActivate EXCEPT !.pc = "keys"]
  /\ UNCHANGED <<swBuckets, swCache, swInstall, swFetch>>
  /\ UNCHANGED rvars

\* caches.keys() resolves; caches.delete(k) is called for every other bucket and
\* Promise.all of the deletions is awaited
ActivateKeys ==
  /\ swActivate.pc = "keys"
  /\ swActivate' = [swActivate EXCEPT !.pc = "delete", !.keys = swBuckets,
                                      !.pending = ToDelete(swBuckets)]
  /\ UNCHANGED <<swBuckets, swCache, swInstall, swFetch>>
  /\ UNCHANGED rvars

\* one of the deletions completes; the deletions complete in any order
ActivateDeleted(k) ==
  /\ swActivate.pc = "delete"
  /\ k \in swActivate.pending
  /\ swBuckets' = swBuckets \ {k}
  /\ swCache' = IF k = CACHE_NAME THEN {} ELSE swCache
  /\ swActivate' = [swActivate EXCEPT !.pending = @ \ {k},
                       !.deleted = IF k \in swBuckets THEN @ \cup {k} ELSE @]
  /\ UNCHANGED <<swInstall, swFetch>>
  /\ UNCHANGED rvars

\* Promise.all resolves: clients.claim() is called and the handler is over
ActivateDone ==
  /\ swActivate.pc = "delete"
  /\ swActivate.pending = {}
  /\ swActivate' = [swActivate EXCEPT !.pc = "end", !.claimed = TRUE,
                                      !.promise = "resolved"]
  /\ UNCHANGED <<swBuckets, swCache, swInstall, swFetch>>
  /\ UNCHANGED rvars

(***************************************************************************)
(* The fetch listener (src/sw.js)                                          *)
(***************************************************************************)
FetchSlots == {1, 2}    \* slots for fetch events whose handlers are in progress

Request(method, url) == [method |-> method, url |-> url]

NoFetch ==
  [pc |-> "idle", req |-> Request("", URL("", <<>>, "")), strategy |-> "none",
   responds |-> 0, cached |-> NoResponse, net |-> FALSE, fetched |-> NoResponse,
   response |-> NoResponse, error |-> FALSE]

\* what fetch(req) settled with when it rejected
Rejected == [kind |-> "rejected"]

\* String.prototype.includes, on a string given piece by piece
includes(haystack, needle) ==
  \E i \in 1..(Len(haystack) - Len(needle) + 1) :
     SubSeq(haystack, i, i + Len(needle) - 1) = needle

\* mutant of isModelRequest: any path with a segment "models"
isModelRequestSegment(url) == \E i \in DOMAIN url.pathname : url.pathname[i] = "models"

\* isModelRequest(url): the pathname, not the query, contains "/models/"
isModelRequest(url) == includes(url.pathname, <<"/", "models", "/">>)

\* the listener's choice: "none" when it returns without calling respondWith
strategyOf(req) ==
  IF req.method # "GET" THEN "none"
  ELSE IF req.url.origin = Origin
       THEN IF isModelRequest(req.url) THEN "staleWhileRevalidate" ELSE "cacheFirst"
       ELSE "staleWhileRevalidate"

\* what fetch(req) can resolve with: same-origin responses are basic, cross-origin
\* ones cors or (no-cors requests) opaque, an opaque response never being ok
NetResponses(url, bodies) ==
  IF url.origin = Origin
  THEN {Response(ok, "basic", b) : ok \in BOOLEAN, b \in bodies}
  ELSE {Response(ok, "cors", b) : ok \in BOOLEAN, b \in bodies}
       \cup {Response(FALSE, "opaque", b) : b \in bodies}

\* a fetch event reaches the active worker: the listener returns at once for a
\* method other than GET, and otherwise calls respondWith once, with the promise
\* of the strategy it chose, which suspends on caches.open()
FetchEvent(f, req) ==
  /\ swActivate.pc = "end"
  /\ swFetch[f].pc \in {"idle", "done"}
  /\ swFetch' = [swFetch EXCEPT ![f] =
       IF strategyOf(req) = "none"
       THEN [NoFetch EXCEPT !.pc = "done", !.req = req]
       ELSE [NoFetch EXCEPT !.pc = "open", !.req = req, !.strategy = strategyOf(req),
                            !.responds = 1]]
  /\ UNCHANGED <<swBuckets, swCache, swInstall, swActivate>>
  /\ UNCHANGED rvars

\* caches.open(CACHE_NAME) resolves; cache.match() is awaited
CacheOpened(f) ==
  /\ swFetch[f].pc = "open"
  /\ swBuckets' = swBuckets \cup {CACHE_NAME}
  /\ swFetch' = [swFetch EXCEPT ![f].pc = "match"]
  /\ UNCHANGED <<swCache, swInstall, swActivate>>
  /\ UNCHANGED rvars

\* cache.match() resolves.  cacheFirst returns a hit and issues fetch(req) on a
\* miss; staleWhileRevalidate issues fetch(req) in both cases and returns
\* cached || networkFetch: the hit at once, else what networkFetch settles to
CacheMatched(f) ==
  LET e == swFetch[f]
      cached == cacheMatch(swCache, e.req.url)
  IN
  /\ e.pc = "match"
  /\ swFetch' = [swFetch EXCEPT ![f] =
       IF e.strategy = "cacheFirst"
       THEN IF cached # NoResponse
            THEN [e EXCEPT !.pc = "done", !.cached = cached, !.response = cached]
            ELSE [e EXCEPT !.pc = "fetch", !.net = TRUE]
       ELSE IF cached # NoResponse
            THEN [e EXCEPT !.pc = "refresh", !.cached = cached, !.net = TRUE,
                           !.response = cached]
            ELSE [e EXCEPT !.pc = "fetch", !.net = TRUE]]
  /\ UNCHANGED <<swBuckets, swCache, swInstall, swActivate>>
  /\ UNCHANGED rvars

\* mutant of NetworkResponds: cacheFirst stores whatever the network answered
NetworkRespondsStoresAny(f, res) ==
  LET e == swFetch[f]
      stored == IF e.strategy = "cacheFirst" THEN TRUE
                ELSE res.ok \/ res.type = "opaque"
  IN
  /\ e.pc \in {"fetch", "refresh"}
  /\ swCache' = IF stored THEN cachePut(swCache, e.req.url, res) ELSE swCache
  /\ swFetch' = [swFetch EXCEPT ![f] =
       [e EXCEPT !.pc = "done", !.fetched = res,
                 !.response = IF e.pc = "fetch" THEN res ELSE @]]
  /\ UNCHANGED <<swBuckets, swInstall, swActivate>>
  /\ UNCHANGED rvars

\* fetch(req) resolves with res: cacheFirst stores it if res.ok,
\* staleWhileRevalidate if res.ok or res.type is 'opaque' (cache.put is called and
\* not awaited); res answers the request unless the cached copy already has
NetworkResponds(f, res) ==
  LET e == swFetch[f]
      stored == IF e.strategy = "cacheFirst" THEN res.ok
                ELSE res.ok \/ res.type = "opaque"
  IN
  /\ e.pc \in {"fetch", "refresh"}
  /\ swCache' = IF stored THEN cachePut(swCache, e.req.url, res) ELSE swCache
  /\ swFetch' = [swFetch EXCEPT ![f] =
       [e EXCEPT !.pc = "done", !.fetched = res,
                 !.response = IF e.pc = "fetch" THEN res ELSE @]]
  /\ UNCHANGED <<swBuckets, swInstall, swActivate>>
  /\ UNCHANGED rvars

\* mutant of NetworkFails: staleWhileRevalidate without .catch(() => cached)
NetworkFailsNoCatch(f) ==
  LET e == swFetch[f] IN
  /\ e.pc \in {"fetch", "refresh"}
  /\ swFetch' = [swFetch EXCEPT ![f] =
       [e EXCEPT !.pc = "done", !.fetched = Rejected, !.error = TRUE]]
  /\ UNCHANGED <<swBuckets, swCache, swInstall, swActivate>>
  /\ UNCHANGED rvars

\* fetch(req) rejects.  In cacheFirst the rejection is the handler's: the page
\* gets a network error.  In staleWhileRevalidate .catch(() => cached) turns it
\* into cached: nothing more happens after a hit, and after a miss respondWith
\* is handed undefined, which the page gets as a network error
NetworkFails(f) ==
  LET e == swFetch[f] IN
  /\ e.pc \in {"fetch", "refresh"}
  /\ swFetch' = [swFetch EXCEPT ![f] =
       [e EXCEPT !.pc = "done", !.fetched = Rejected, !.error = (e.pc = "fetch")]]
  /\ UNCHANGED <<swBuckets, swCache, swInstall, swActivate>>
  /\ UNCHANGED rvars

(***************************************************************************)
(* Specifications                                                          *)
(***************************************************************************)
InitR(thresholds, margins, samples) ==
  /\ storage = NoItem
  /\ db = [i \in Instances |-> loadDB(storage).table]
  /\ running = [i \in Instances |-> FALSE]
  /\ srcObject = [i \in Instances |-> NoStream]
  /\ liveTracks = {}
  /\ \E th \in thresholds : distanceThreshold = [i \in Instances |-> th]
  /\ \E mg \in margins : secondBestMargin = [i \in Instances |-> mg]
  /\ \E n \in samples : samplesPerPose = [i \in Instances |-> n]
  /\ call = [t \in Tasks |-> NoCall]
  /\ shown = [t \in Tasks |-> NoShown]
  /\ matchRet = None
  /\ loadRet = None
  /\ cancelled = [t \in Tasks |-> FALSE]
  /\ ideal = <<>>
  /\ deletedNames = [i \in Instances |-> {}]

NoInstall ==
  [pc |-> "none", precache |-> "pending", failed |-> {}, skipWaiting |-> FALSE,
   promise |-> "pending"]

InitSW ==
  /\ swBuckets = {}
  /\ swCache = {}
  /\ swInstall = NoInstall
  /\ swActivate = NoActivate
  /\ swFetch = [f \in FetchSlots |-> NoFetch]

\* One Recognizer and one call at a time: enroll, verify, stop and delete in any
\* order, the camera or a detection failing at any point
Init ==
  /\ InitR({5}, {5}, {1})
  /\ InitSW

Next ==
  \/ \E name \in {"Alice", "Bob"} : enrollCall(1, 1, name)
  \/ verifyCall(1, 1)
  \/ CameraGranted(1)
  \/ CameraDenied(1)
  \/ PlayResolved(1)
  \/ PlayRejected(1)
  \/ \E res \in {Vec(<<0, 0>>), Vec(<<3, 4>>), Null} : EnrollDetected(1, res)
  \/ \E res \in {Vec(<<0, 0>>), Vec(<<3, 4>>), Null} : VerifyDetected(1, res)
  \/ DetectThrows(1)
  \/ PosePauseElapsed(1)
  \/ TickPauseElapsed(1)
  \/ stop(1)
  \/ \E name \in {"Alice", "Bob"} : Delete(1, name)

Spec == Init /\ [][Next]_vars

\* One Recognizer, two calls that may overlap
NextOverlap ==
  \/ \E t \in Tasks : enrollCall(t, 1, "Alice")
  \/ \E t \in Tasks : verifyCall(t, 1)
  \/ \E t \in Tasks : CameraGranted(t)
  \/ \E t \in Tasks : PlayResolved(t)
  \/ \E t \in Tasks : PlayRejected(t)
  \/ \E t \in Tasks, res \in {Vec(<<0, 0>>), Null} : EnrollDetected(t, res)
  \/ \E t \in Tasks, res \in {Vec(<<0, 0>>), Null} : VerifyDetected(t, res)
  \/ \E t \in Tasks : PosePauseElapsed(t)
  \/ \E t \in Tasks : TickPauseElapsed(t)
  \/ stop(1)

SpecOverlap == Init /\ [][NextOverlap]_vars

\* Enrollments on one Recognizer, one or two samples per pose, with stop() and a
\* second call at any point
InitEnroll ==
  /\ InitR({5}, {5}, {1, 2})
  /\ InitSW

NextEnroll ==
  \/ \E t \in Tasks : enrollCall(t, 1, "Alice")
  \/ \E t \in Tasks : CameraGranted(t)
  \/ \E t \in Tasks : PlayResolved(t)
  \/ \E t \in Tasks : PlayRejected(t)
  \/ \E t \in Tasks, res \in {Vec(<<3, 4>>), Null} : EnrollDetected(t, res)
  \/ \E t \in Tasks : PosePauseElapsed(t)
  \/ \E t \in Tasks : TickPauseElapsed(t)
  \/ stop(1)

SpecEnroll == InitEnroll /\ [][NextEnroll]_vars

\* One Recognizer whose store is changed by replace() and delete() while enroll
\* calls, which store on returning, are in progress
NextMutate ==
  \/ \E t \in Tasks, name \in {"Alice", "Bob"} : enrollCall(t, 1, name)
  \/ \E t \in Tasks : CameraGranted(t)
  \/ \E t \in Tasks : PlayResolved(t)
  \/ \E t \in Tasks : PlayRejected(t)
  \/ \E t \in Tasks, res \in {Vec(<<3, 4>>), Null} : EnrollDetected(t, res)
  \/ \E t \in Tasks : PosePauseElapsed(t)
  \/ \E t \in Tasks : TickPauseElapsed(t)
  \/ stop(1)
  \/ \E name \in {"Alice", "Bob"} : Replace(1, name, <<Vec(<<6, 8>>)>>)
  \/ \E name \in {"Alice", "Bob"} : Delete(1, name)

SpecMutate == Init /\ [][NextMutate]_vars

\* One call of enroll() or verify() on a Recognizer, and stop() at any point;
\* no second call.  Every promise the call awaits is settled in the end and
\* every timer fires: the camera prompt is answered, play() resolves (or, its
\* stream detached, rejects), the detector answers, the pauses elapse
NextStop ==
  \/ \E name \in {"Alice", "Bob"} : (call[1].pc = "idle" /\ enrollCall(1, 1, name))
  \/ (call[1].pc = "idle" /\ verifyCall(1, 1))
  \/ CameraGranted(1)
  \/ PlayResolved(1)
  \/ (srcObject[1] # 1 /\ PlayRejected(1))
  \/ \E res \in {Vec(<<0, 0>>), Vec(<<3, 4>>), Null} : EnrollDetected(1, res)
  \/ \E res \in {Vec(<<0, 0>>), Vec(<<3, 4>>), Null} : VerifyDetected(1, res)
  \/ PosePauseElapsed(1)
  \/ TickPauseElapsed(1)
  \/ stop(1)

FairStop ==
  /\ WF_vars(CameraGranted(1))
  /\ WF_vars(PlayResolved(1))
  /\ WF_vars(srcObject[1] # 1 /\ PlayRejected(1))
  /\ WF_vars(\E res \in {Vec(<<0, 0>>), Vec(<<3, 4>>), Null} : EnrollDetected(1, res))
  /\ WF_vars(\E res \in {Vec(<<0, 0>>), Vec(<<3, 4>>), Null} : VerifyDetected(1, res))
  /\ WF_vars(PosePauseElapsed(1))
  /\ WF_vars(TickPauseElapsed(1))

SpecStop == Init /\ [][NextStop]_vars /\ FairStop

\* Two Recognizers on the same storage key (two tabs), call t running on Recognizer t
NextRace ==
  \/ \E t \in Tasks, name \in {"Alice", "Bob"} : enrollCall(t, t, name)
  \/ \E t \in Tasks : CameraGranted(t)
  \/ \E t \in Tasks : PlayResolved(t)
  \/ \E t \in Tasks, res \in {Vec(<<0, 0>>), Null} : EnrollDetected(t, res)
  \/ \E t \in Tasks : PosePauseElapsed(t)
  \/ \E t \in Tasks : TickPauseElapsed(t)
  \/ \E i \in Instances, name \in {"Alice", "Bob"} : Delete(i, name)
  \/ \E i \in Instances : Construct(i)

SpecRace == Init /\ [][NextRace]_vars

\* The table of one Recognizer under replace, delete and reload, and match queries
StoredLists == SeqsUpTo({Vec(<<3, 4>>), Vec(<<6, 8>>)}, MaxList)

NextMatch ==
  \/ \E name \in Names, list \in StoredLists :
       /\ name = "Carol" => Len(list) <= 1
       /\ Replace(1, name, list)
  \/ \E name \in Names : Delete(1, name)
  \/ \E desc \in Descriptors : Match(1, desc)
  \/ Construct(1)

SpecMatch == Init /\ [][NextMatch]_vars

\* The store of one Recognizer saved and loaded, the descriptors holding any
\* float, and the item under the key holding any text
Floats == {Fin(0), Fin(4), NaN, Infinity, NegInfinity}

FloatLists ==
  {<<>>, <<Vec(<<3, 4>>)>>, <<Vec(<<3, 4>>), Vec(<<6, 8>>)>>}
    \cup {<<(<<x, Fin(4)>>)>> : x \in Floats}

JDescriptor(ints) == JArray([k \in DOMAIN ints |-> JNumber(Fin(ints[k]))])

Document(value) == [kind |-> "json", text |-> value]

ForeignItems ==
  {EmptyString, Garbage,
   Document(JNull), Document(JNumber(Fin(42))), Document(JString("abc")),
   Document(JArray(<<>>)), Document(JArray(<<JNumber(Fin(1))>>)),
   Document(JObject(<<[name |-> "Alice", value |-> JNumber(Fin(5))]>>)),
   Document(JObject(<<[name |-> "Alice", value |-> JArray(<<JNumber(Fin(2))>>)]>>)),
   Document(JObject(<<[name |-> "Alice", value |-> JArray(<<JNumber(Fin(-1))>>)]>>)),
   Document(JObject(<<[name |-> "Alice", value |-> JArray(<<JString("abc")>>)]>>)),
   Document(JObject(<<[name |-> "Bob", value |-> JArray(<<JDescriptor(<<3, 4>>)>>)]>>))}

NextStore ==
  \/ \E name \in {"Alice", "Bob"}, list \in FloatLists : Replace(1, name, list)
  \/ \E name \in {"Alice", "Bob"} : Delete(1, name)
  \/ \E raw \in ForeignItems : ItemOverwritten(raw)
  \/ LoadDB(1)
  \/ Construct(1)

SpecStore == Init /\ [][NextStore]_vars

\* verify() on one Recognizer whose table and thresholds change under it
InitVerify ==
  /\ InitR(Thresholds, Margins, {1})
  /\ InitSW

NextVerify ==
  \/ verifyCall(1, 1)
  \/ CameraGranted(1)
  \/ PlayResolved(1)
  \/ PlayRejected(1)
  \/ \E res \in Descriptors \cup {Null} : VerifyDetected(1, res)
  \/ TickPauseElapsed(1)
  \/ stop(1)
  \/ \E name \in {"Alice", "Bob"}, d \in Descriptors : Replace(1, name, <<d>>)
  \/ \E name \in {"Alice", "Bob"} : Delete(1, name)
  \/ \E th \in {Some(x) : x \in Thresholds} \cup {None},
        mg \in {Some(x) : x \in Margins} \cup {None} : setThresholds(1, th, mg)

SpecVerify == InitVerify /\ [][NextVerify]_vars

\* The service worker from its registration to its activation, whatever buckets
\* there are when it is registered
InitLifecycle ==
  /\ InitR({5}, {5}, {1})
  /\ swBuckets \in SUBSET (OldBuckets \cup {CACHE_NAME})
  /\ swCache = {}
  /\ swInstall = NoInstall
  /\ swActivate = NoActivate
  /\ swFetch = [f \in FetchSlots |-> NoFetch]

NextSW ==
  \/ InstallEvent
  \/ InstallOpened
  \/ InstallOpenFails
  \/ \E failed \in SUBSET APP_SHELL : InstallAddAllSettles(failed)
  \/ ActivateEvent
  \/ ActivateKeys
  \/ \E k \in OldBuckets \cup {CACHE_NAME} : ActivateDeleted(k)
  \/ ActivateDone

SpecSW == InitLifecycle /\ [][NextSW]_vars

\* The active worker answering requests: the state the install and the activation
\* leave, the shell pre-cached or (a resource having failed) not
CdnScript == "https://cdn.jsdelivr.net/npm/face-api.js@0.22.2/dist/face-api.min.js"

InitActive ==
  /\ InitR({5}, {5}, {1})
  /\ swBuckets = {CACHE_NAME}
  /\ \E failed \in {{}, {CdnScript}} :
       /\ swCache = IF failed = {} THEN addAll({}, APP_SHELL) ELSE {}
       /\ swInstall = [pc |-> "end", precache |-> IF failed = {} THEN "stored" ELSE "failed",
                       failed |-> failed, skipWaiting |-> TRUE, promise |-> "resolved"]
  /\ swActivate = [NoActivate EXCEPT !.pc = "end", !.keys = {CACHE_NAME},
                                     !.claimed = TRUE, !.promise = "resolved"]
  /\ swFetch = [f \in FetchSlots |-> NoFetch]

\* requests the page makes
UFace == URL(Origin, <<"/", "face.html">>, "")
UModel == URL(Origin, <<"/", "models", "/", "tiny_face_detector_model-shard1">>, "")
UModelsDir == URL(Origin, <<"/", "models">>, "")
UQuery == URL(Origin, <<"/", "face.html">>, "?next=/models/")
UCdn == ShellURL(CdnScript)
UOtherModels == URL("https://other.example", <<"/", "models", "/", "weights.bin">>, "")
UOtherScheme == URL("http://app.example", <<"/", "face.html">>, "")

DispatchURLs == {UFace, UModel, UModelsDir, UQuery, UCdn, UOtherModels, UOtherScheme}

\* One request at a time, of every kind the listener tells apart
NextDispatch ==
  \/ \E m \in {"GET", "POST", "HEAD"}, u \in DispatchURLs : FetchEvent(1, Request(m, u))
  \/ CacheOpened(1)
  \/ CacheMatched(1)
  \/ \E res \in NetResponses(swFetch[1].req.url, {"v1"}) : NetworkResponds(1, res)
  \/ NetworkFails(1)

SpecDispatch == InitActive /\ [][NextDispatch]_vars

\* Two requests that may overlap, for a page, a model file and the CDN script,
\* the network holding two successive copies of each
FetchURLs == {UFace, UModel, UCdn}

NextFetch ==
  \/ \E f \in FetchSlots, u \in FetchURLs : FetchEvent(f, Request("GET", u))
  \/ \E f \in FetchSlots : CacheOpened(f)
  \/ \E f \in FetchSlots : CacheMatched(f)
  \/ \E f \in FetchSlots :
       \E res \in NetResponses(swFetch[f].req.url, {"v1", "v2"}) : NetworkResponds(f, res)
  \/ \E f \in FetchSlots : NetworkFails(f)

SpecFetch == InitActive /\ [][NextFetch]_vars


(***************************************************************************)
(* What the claims are stated against: distances taken straight from the   *)
(* table, with no running minimum and no running top-2                     *)
(***************************************************************************)
MinNum(S) == IF S = {} THEN Infinity ELSE CHOOSE x \in S : \A y \in S : NumLe(x, y)

\* the distances from desc to the descriptors stored for n
DistsOf(table, desc, n) ==
  UNION {{euclidean(desc, table[e].list[j]) : j \in DOMAIN table[e].list} :
           e \in {x \in DOMAIN table : table[x].name = n}}

RefPersonBest(table, desc, n) == MinNum(DistsOf(table, desc, n))

RefBest(table, desc) == MinNum(UNION {DistsOf(table, desc, n) : n \in DbNames(table)})

\* the least person-best among the people other than n
RefSecond(table, desc, n) ==
  MinNum({RefPersonBest(table, desc, o) : o \in DbNames(table) \ {n}})

\* d1 <= threshold and d2 - d1 >= margin, a missing competitor (d2 infinite) passing
RefRule(d1, d2, threshold, margin) ==
  /\ d1.k = "fin" /\ d1.v <= threshold
  /\ d2.k = "inf" \/ (d2.k = "fin" /\ d2.v - d1.v >= margin)

\* the tables agree on every name other than n
SameButFor(old, new, n) ==
  \A o \in (DbNames(old) \cup DbNames(new)) \ {n} :
     DbHas(old, o) /\ DbHas(new, o) /\ DbGet(old, o) = DbGet(new, o)

(***************************************************************************)
(* Claims                                                                  *)
(***************************************************************************)

\* C1: in the step in which verify() handles a frame with a detected face, the
\* name handed to onResult is a best-matching name when the least distance is
\* <= distanceThreshold and the least person-best among the other people
\* exceeds it by >= secondBestMargin (both bounds included), and is "Unknown"
\* in every other case; the distance handed over is the least distance.
C1_AcceptanceRule ==
  [][\A t \in Tasks :
       (/\ call[t].kind = "verify" /\ call[t].pc = "detect"
        /\ call'[t].pc = "tickPause" /\ shown'[t].face)
       =>
       LET i == call[t].inst
           q == shown'[t].query
           d1 == RefBest(db[i], q)
           ok(n) == /\ RefPersonBest(db[i], q, n) = d1
                    /\ RefRule(d1, RefSecond(db[i], q, n),
                               distanceThreshold[i], secondBestMargin[i])
       IN /\ shown'[t].distance = d1
          /\ IF \E n \in DbNames(db[i]) : ok(n)
             THEN shown'[t].name \in DbNames(db[i]) /\ ok(shown'[t].name)
             ELSE shown'[t].name = "Unknown"]_vars

\* C1 witness: a frame was accepted with the best distance exactly at the
\* threshold and the gap to the runner-up exactly the margin
C1_Witness ==
  /\ call[1].kind = "verify" /\ call[1].pc = "tickPause" /\ shown[1].face
  /\ shown[1].name = "Alice"
  /\ shown[1].distance = Fin(distanceThreshold[1])
  /\ RefBest(db[1], shown[1].query) = Fin(distanceThreshold[1])
  /\ RefSecond(db[1], shown[1].query, "Alice")
       = Fin(distanceThreshold[1] + secondBestMargin[1])

\* C2: matchDescriptor returns as bestDist the least distance from the query to
\* any stored descriptor of any person and as bestName a person who owns a
\* descriptor at that distance ("Unknown" when there is none), whatever the
\* table and the order of its entries; and one more sample never raises a
\* person's best distance.
C2_BestIsMinimum ==
  matchRet # None =>
    LET table == db[matchRet.inst]
        q == matchRet.query
        r == matchRet.result
    IN /\ r.bestDist = RefBest(table, q)
       /\ IF r.bestDist = Infinity
          THEN r.bestName = "Unknown"
          ELSE r.bestName \in DbNames(table) /\ r.bestDist \in DistsOf(table, q, r.bestName)
       /\ \A e \in DOMAIN table, d \in Descriptors :
            /\ NumLe(personBest(q, Append(table[e].list, d)), personBest(q, table[e].list))
            /\ NumLe(personBest(q, Append(table[e].list, d)), euclidean(q, d))

\* C2 witness: the best person is not the first entry, owns two descriptors, and
\* the closer of the two is the first one
C2_Witness ==
  /\ matchRet # None
  /\ LET table == db[1]
         q == matchRet.query
         r == matchRet.result
     IN /\ Len(table) = 3
        /\ r.bestName = table[3].name
        /\ Len(table[3].list) = 2
        /\ NumLt(euclidean(q, table[3].list[1]), euclidean(q, table[3].list[2]))
        /\ r.bestDist = euclidean(q, table[3].list[1])

\* C3: matchDescriptor returns as secondBest the least person-best among the
\* people other than bestName, whatever the order of the entries; with fewer
\* than two people it is Infinity.
C3_SecondIsBestOfOthers ==
  matchRet # None =>
    LET table == db[matchRet.inst]
        q == matchRet.query
        r == matchRet.result
    IN /\ r.secondBest = RefSecond(table, q, r.bestName)
       /\ Len(table) <= 1 => r.secondBest = Infinity

\* C3 witness: three people; the best is met after the runner-up, and both of
\* the best person's descriptors are closer than the runner-up's
C3_Witness ==
  /\ matchRet # None
  /\ LET table == db[1]
         q == matchRet.query
         r == matchRet.result
     IN /\ Len(table) = 3
        /\ r.bestName = table[2].name
        /\ Len(table[2].list) = 2
        /\ \A j \in 1..2 : NumLt(euclidean(q, table[2].list[j]), r.secondBest)
        /\ r.secondBest = RefPersonBest(table, q, table[1].name)
        /\ r.secondBest # Infinity

\* C3, the single-person case: one person is enrolled and matched, secondBest is Infinity
C3_SinglePerson ==
  /\ matchRet # None
  /\ Len(db[1]) = 1
  /\ matchRet.result.bestName = db[1][1].name
  /\ matchRet.result.secondBest = Infinity


\* C4: an enroll() call whose loop ends with nothing collected fails with the
\* "No high-quality face samples" error, and no step of an enroll() call that
\* ends in a failure changes the in-memory table or the stored document: a
\* prior record for the name is kept as it was.
C4_ZeroSamplesFails ==
  [][\A t \in Tasks :
       (call[t].kind = "enroll" /\ Active(call[t]) /\ Ended(call'[t]))
       =>
       /\ (call[t].pc = "tickPause" /\ call[t].collected = <<>>)
            => call'[t].pc = "failed" /\ call'[t].outcome = "NoSamples"
       /\ (call[t].collected = <<>> \/ call'[t].pc = "failed")
            => call'[t].pc = "failed" /\ db' = db /\ storage' = storage]_vars

\* C4 witness: enroll(name) failed for want of samples and the record the name
\* had before is still in the table and in the stored document
C4_Witness ==
  /\ call[1].kind = "enroll" /\ call[1].pc = "failed" /\ call[1].outcome = "NoSamples"
  /\ DbHas(db[1], call[1].name)
  /\ storage = Serialize(db[1])

\* C5: when the loop of an enroll(name) call ends with at least one descriptor
\* collected, the call returns, the entry of the name is exactly the collected
\* list, every other entry is what it was, the returned number is the length of
\* the stored list, and the stored document is the serialization of the table.
C5_EnrollReplaces ==
  [][\A t \in Tasks :
       (/\ call[t].kind = "enroll" /\ call[t].pc = "tickPause"
        /\ call[t].collected # <<>> /\ Ended(call'[t]))
       =>
       LET i == call[t].inst
           n == call[t].name
       IN /\ call'[t].pc = "done" /\ call'[t].outcome = "returned"
          /\ DbHas(db'[i], n) /\ DbGet(db'[i], n) = call[t].collected
          /\ call'[t].ret = Len(DbGet(db'[i], n))
          /\ SameButFor(db[i], db'[i], n)
          /\ storage' = Serialize(db'[i])]_vars

\* C5 witness: an enroll() stopped after one sample has returned 1, the name's
\* entry holds one descriptor and another person's entry is in the table
C5_Witness ==
  /\ call[1].kind = "enroll" /\ call[1].pc = "done" /\ call[1].ret = 1
  /\ DbHas(db[1], call[1].name) /\ Len(DbGet(db[1], call[1].name)) = 1
  /\ Len(db[1]) = 2
  /\ Len(db[1][1].list) = NumPoses /\ db[1][1].name # call[1].name

\* C6: a name deleted on a Recognizer and not stored again is absent from its
\* table, reloads included; a match query then never returns it, and bestDist
\* and secondBest are those of the remaining people; the delete step itself
\* leaves every other entry as it was.
C6_DeletedNeverMatched ==
  /\ [](\A i \in Instances : \A n \in deletedNames[i] :
          /\ ~DbHas(db[i], n)
          /\ (matchRet # None /\ matchRet.inst = i) =>
               LET rest == SelectSeq(db[i], LAMBDA e : e.name # n)
                   r == matchRet.result
               IN /\ r.bestName # n
                  /\ r.bestDist = RefBest(rest, matchRet.query)
                  /\ r.secondBest = RefSecond(rest, matchRet.query, r.bestName))
  /\ [][\A i \in Instances : \A n \in deletedNames'[i] \ deletedNames[i] :
          ~DbHas(db'[i], n) /\ SameButFor(db[i], db'[i], n)]_vars

\* C6 witness: the name that was first in the table has been deleted, the others
\* are still there, and a query has just been answered with one of them
C6_Witness ==
  /\ deletedNames[1] # {}
  /\ Len(db[1]) = 2
  /\ matchRet # None
  /\ matchRet.result.bestName \in DbNames(db[1])
  /\ matchRet.result.secondBest # Infinity


\* C7: every write of the stored document leaves exactly the serialization of
\* one Recognizer's in-memory table, with nothing merged in from the document it
\* overwrites; so with two Recognizers on the key a change persisted by one is
\* lost when the other writes next (the witnesses below are reached).
C7_LastWriteWins ==
  [][storage' # storage =>
       \E i \in Instances :
          /\ storage' = Serialize(db'[i])
          /\ DbNames(loadDB(storage').table) = DbNames(db'[i])]_vars

\* C7 witness: enroll("Alice") on one Recognizer and enroll("Bob") on the other
\* have both returned, neither name was deleted since, and the stored document
\* lacks one of them
C7_Witness ==
  /\ call[1].kind = "enroll" /\ call[1].pc = "done" /\ call[1].inst = 1
  /\ call[2].kind = "enroll" /\ call[2].pc = "done" /\ call[2].inst = 2
  /\ call[1].name # call[2].name
  /\ DbNames(ideal) = {call[1].name, call[2].name}
  /\ DbNames(loadDB(storage).table) # DbNames(ideal)

\* C7, an enroll racing a delete: Recognizer 1 has enrolled Alice, Recognizer 2
\* has deleted Bob from its older table, and the stored document has lost Alice
C7_EnrollDeleteRace ==
  /\ call[1].kind = "enroll" /\ call[1].pc = "done" /\ call[1].name = "Alice"
  /\ call[2].pc = "idle"
  /\ deletedNames[2] = {"Bob"}
  /\ DbHas(ideal, "Alice")
  /\ ~DbHas(loadDB(storage).table, "Alice")

\* C8: once the running flag has been set false while the loop of a call is
\* active, that call starts no further detectOne() call.
C8_NoDetectionAfterStop ==
  [][\A t \in Tasks :
       (cancelled[t] /\ call[t].pc # "detect") => call'[t].pc # "detect"]_vars

\* C9: whenever an enroll() or verify() call ends, by return or by an error, the
\* stream it acquired has its tracks stopped, no stream is attached to the video
\* and the running flag is false.
C9_CameraReleasedOnExit ==
  [][\A t \in Tasks :
       (Active(call[t]) /\ Ended(call'[t])) =>
          /\ ~running'[call[t].inst]
          /\ srcObject'[call[t].inst] = NoStream
          /\ t \notin liveTracks']_vars

\* C10: once cache.addAll() has settled, whichever requests of the shell list
\* failed, the promise handed to waitUntil is resolved and skipWaiting() has
\* been called.
C10_InstallCompletes ==
  swInstall.precache # "pending" =>
    swInstall.promise = "resolved" /\ swInstall.skipWaiting

\* C10 witness: the install is over although the CDN script, among others, could
\* not be fetched and nothing was pre-cached
C10_Witness ==
  /\ swInstall.pc = "end" /\ swInstall.precache = "failed"
  /\ "https://cdn.jsdelivr.net/npm/face-api.js@0.22.2/dist/face-api.min.js"
        \in swInstall.failed
  /\ "./face.html" \in swInstall.failed
  /\ swCache = {}
  /\ swInstall.promise = "resolved"

\* C11: once the activate handler has completed, no bucket with a name other than
\* CACHE_NAME is left, the handler has deleted exactly the other buckets it was
\* given by caches.keys(), and the bucket CACHE_NAME, with what the install put
\* in it, has not been deleted, whatever buckets there were at the start.
C11_ActivateDeletesOthers ==
  swActivate.pc = "end" =>
    /\ swBuckets = {CACHE_NAME}
    /\ swActivate.deleted = swActivate.keys \ {CACHE_NAME}
    /\ CACHE_NAME \notin swActivate.deleted
    /\ swInstall.precache = "stored" => swCache = addAll({}, APP_SHELL)

\* C11 witness: two other buckets existed and are gone, the current one and the
\* pre-cached shell are still there
C11_Witness ==
  /\ swActivate.pc = "end"
  /\ swActivate.keys = OldBuckets \cup {CACHE_NAME}
  /\ swActivate.deleted = OldBuckets
  /\ swBuckets = {CACHE_NAME}
  /\ swCache # {}

\* the claim's rule: a model asset is a path with the piece "/models/" in it
RefModelAsset(url) ==
  \E i \in 1..(Len(url.pathname) - 2) :
     url.pathname[i] = "/" /\ url.pathname[i + 1] = "models" /\ url.pathname[i + 2] = "/"

RefStrategy(req) ==
  CASE req.method # "GET" -> "none"
    [] req.method = "GET" /\ req.url.origin # Origin -> "staleWhileRevalidate"
    [] req.method = "GET" /\ req.url.origin = Origin /\ RefModelAsset(req.url) ->
         "staleWhileRevalidate"
    [] OTHER -> "cacheFirst"

\* C12: a fetch event with a method other than GET is left alone (respondWith is
\* not called, the worker neither looks in the cache nor fetches); a GET gets
\* exactly one respondWith, of stale-while-revalidate if it is cross-origin or a
\* same-origin model asset and of cache-first otherwise, and the handler behaves
\* as that strategy to its end: stale-while-revalidate goes to the network on a
\* hit too, cache-first only on a miss.
C12_Dispatch ==
  [][\A f \in FetchSlots :
       LET old == swFetch[f]
           new == swFetch'[f]
       IN
       /\ (old.pc \in {"idle", "done"} /\ new # old) =>
            /\ new.strategy = RefStrategy(new.req)
            /\ new.responds = IF new.req.method = "GET" THEN 1 ELSE 0
            /\ new.req.method # "GET" =>
                 new.pc = "done" /\ ~new.net /\ new.response = NoResponse
            /\ new.req.method = "GET" => new.pc = "open"
       /\ (old.pc \notin {"idle", "done"}) =>
            /\ new.req = old.req
            /\ new.strategy = RefStrategy(old.req)
            /\ new.responds = 1
       /\ (old.pc = "match" /\ new # old) =>
            new.net = (RefStrategy(old.req) = "staleWhileRevalidate"
                         \/ cacheMatch(swCache, old.req.url) = NoResponse)]_vars

\* C12 witness: a cross-origin GET for a model file has been answered by
\* stale-while-revalidate from the network
C12_Witness ==
  /\ swFetch[1].pc = "done"
  /\ swFetch[1].req = Request("GET", UOtherModels)
  /\ swFetch[1].strategy = "staleWhileRevalidate"
  /\ swFetch[1].responds = 1
  /\ swFetch[1].response = Response(FALSE, "opaque", "v1")

\* C12: the other cases happen too: a POST of a model file is not intercepted, a
\* same-origin path "/models" and a query naming "/models/" are cache-first
C12_OtherCases ==
  \/ /\ swFetch[1].req = Request("POST", UModel)
     /\ swFetch[1].pc = "done" /\ swFetch[1].responds = 0
  \/ /\ swFetch[1].req \in {Request("GET", UModelsDir), Request("GET", UQuery)}
     /\ swFetch[1].pc = "done" /\ swFetch[1].strategy = "cacheFirst"
     /\ swFetch[1].response # NoResponse

\* C13: in stale-while-revalidate, a request that finds a cached response is
\* answered with it at once, and that answer stands whatever the network fetch
\* does afterwards; a fetch that fails after a hit surfaces no error and changes
\* nothing in the cache (nor does an unsuccessful response); a successful
\* response becomes the entry of the URL, which is what the next lookup returns.
C13_StaleWhileRevalidate ==
  [][\A f \in FetchSlots :
       LET old == swFetch[f]
           new == swFetch'[f]
           url == old.req.url
           hit == cacheMatch(swCache, url)
       IN
       (old.strategy = "staleWhileRevalidate" /\ new # old) =>
         /\ (old.pc = "match" /\ hit # NoResponse) =>
              new.response = hit /\ new.cached = hit /\ ~new.error /\ new.net
         /\ old.pc = "refresh" =>
              /\ new.pc = "done"
              /\ new.response = old.cached /\ ~new.error
              /\ new.fetched = Rejected => swCache' = swCache
              /\ (new.fetched # Rejected /\ ~new.fetched.ok /\ new.fetched.type # "opaque")
                   => swCache' = swCache
              /\ (new.fetched # Rejected /\ new.fetched.ok) =>
                   /\ cacheMatch(swCache', url) = new.fetched
                   /\ \A e \in swCache : e.url # url => e \in swCache']_vars

\* C13 witness: a model file was served from the cache (first copy) while the
\* refresh stored the second copy, and the next request was served that copy
C13_Witness ==
  /\ swFetch[1].pc = "done" /\ swFetch[1].req = Request("GET", UModel)
  /\ swFetch[1].cached = Response(TRUE, "basic", "v1")
  /\ swFetch[1].response = Response(TRUE, "basic", "v1")
  /\ swFetch[1].fetched = Response(TRUE, "basic", "v2")
  /\ swFetch[2].pc = "done" /\ swFetch[2].req = Request("GET", UModel)
  /\ swFetch[2].response = Response(TRUE, "basic", "v2")
  /\ swFetch[2].cached = Response(TRUE, "basic", "v2")

\* C13: the failing refresh happens: the CDN script was served from the cache, the
\* fetch was rejected, no error came of it and the entry is as it was
C13_FailedRefresh ==
  /\ swFetch[1].pc = "done" /\ swFetch[1].req = Request("GET", UCdn)
  /\ swFetch[1].fetched = Rejected
  /\ swFetch[1].response = Response(TRUE, "cors", "v1")
  /\ ~swFetch[1].error
  /\ cacheMatch(swCache, UCdn) = Response(TRUE, "cors", "v1")

\* what C14 says of a step of the cache-first handler in slot f, but for its last
\* clause: a hit is served with no network request and no write; a miss goes to
\* the network, whose response is returned and is stored if and only if it is ok;
\* a rejected fetch stores nothing; no entry of another URL is touched
CacheFirstStep(f) ==
  LET old == swFetch[f]
      new == swFetch'[f]
      url == old.req.url
      hit == cacheMatch(swCache, url)
  IN
  (old.strategy = "cacheFirst" /\ new # old) =>
    /\ (old.pc = "match" /\ hit # NoResponse) =>
         /\ new.pc = "done" /\ new.response = hit /\ ~new.net /\ ~new.error
         /\ swCache' = swCache
    /\ (old.pc = "match" /\ hit = NoResponse) =>
         new.pc = "fetch" /\ new.net /\ swCache' = swCache
    /\ old.pc = "fetch" =>
         /\ new.pc = "done"
         /\ new.fetched = Rejected => swCache' = swCache
         /\ new.fetched # Rejected =>
              /\ new.response = new.fetched /\ ~new.error
              /\ new.fetched.ok => cacheMatch(swCache', url) = new.fetched
              /\ ~new.fetched.ok => swCache' = swCache
         /\ \A e \in swCache : e.url # url => e \in swCache'
    /\ \A e \in swCache' \ swCache : e.res.ok

\* C14 as stated: ..., and cache-first never changes an existing entry.
C14_CacheFirstNeverChanges ==
  [][\A f \in FetchSlots :
       /\ CacheFirstStep(f)
       /\ (swFetch[f].strategy = "cacheFirst" /\ swFetch'[f] # swFetch[f]) =>
            \A e \in swCache : e \in swCache']_vars

\* C14, amended: ..., cache-first never stores an unsuccessful response, never
\* writes the cache when it found the request in it and never touches the entry
\* of another URL; the entry of its URL is written only by a request that missed
\* (of two overlapping misses, the later response replaces the earlier one's).
C14_CacheFirst ==
  [][\A f \in FetchSlots :
       /\ CacheFirstStep(f)
       /\ (swFetch[f].strategy = "cacheFirst" /\ swFetch'[f] # swFetch[f]
             /\ swCache' # swCache) =>
            /\ swFetch[f].pc = "fetch"
            /\ swFetch[f].cached = NoResponse
            /\ swCache' = cachePut(swCache, swFetch[f].req.url, swFetch'[f].fetched)]_vars

\* C14 witness: two overlapping requests for the page both missed; each stored
\* its response, and the entry is the second copy, not the first
C14_Witness ==
  /\ \A f \in FetchSlots :
       /\ swFetch[f].pc = "done" /\ swFetch[f].req = Request("GET", UFace)
       /\ swFetch[f].strategy = "cacheFirst"
       /\ swFetch[f].cached = NoResponse /\ swFetch[f].net
  /\ swFetch[1].response = Response(TRUE, "basic", "v1")
  /\ swFetch[2].response = Response(TRUE, "basic", "v2")
  /\ cacheMatch(swCache, UFace) = Response(TRUE, "basic", "v2")

\* C14: the plain cases happen: a hit served without the network, and a miss
\* answered by an unsuccessful response that was not stored
C14_HitAndMiss ==
  /\ swFetch[1].pc = "done" /\ swFetch[1].req = Request("GET", UFace)
  /\ swFetch[1].fetched = Response(FALSE, "basic", "v1")
  /\ swFetch[1].response = Response(FALSE, "basic", "v1")
  /\ swFetch[2].pc = "done" /\ swFetch[2].req = Request("GET", UFace)
  /\ swFetch[2].cached = Response(TRUE, "basic", "v2")
  /\ swFetch[2].response = Response(TRUE, "basic", "v2") /\ ~swFetch[2].net

\* C15: when the item under the key is what saveDB() wrote for the table,
\* loadDB() returns a table with the same names and, for each name, the same
\* descriptors in the same order with the same elements.
C15_RoundTrip ==
  [][(loadRet' # None /\ storage = Serialize(db[1])) =>
       LET loaded == loadRet'.result.table IN
       /\ DbNames(loaded) = DbNames(db[1])
       /\ \A n \in DbNames(db[1]) : DbGet(loaded, n) = DbGet(db[1], n)]_vars

\* every element of every descriptor of the table is a finite number
AllFinite(table) ==
  \A e \in DOMAIN table : \A k \in DOMAIN table[e].list :
     \A x \in DOMAIN table[e].list[k] : table[e].list[k][x].k = "fin"

\* C15, on tables of finite numbers only: there the round trip is exact
C15_FiniteRoundTrip ==
  [][(loadRet' # None /\ storage = Serialize(db[1]) /\ AllFinite(db[1])) =>
       loadRet'.result = [kind |-> "object", table |-> db[1]]]_vars

\* a JSON text that denotes a mapping from names to lists of descriptors, a
\* descriptor being a list of numbers (null standing for a number JSON cannot
\* write)
IsTableDocument(raw) ==
  /\ raw.kind = "json"
  /\ raw.text.j = "object"
  /\ \A e \in DOMAIN raw.text.entries :
       LET value == raw.text.entries[e].value IN
       /\ value.j = "array"
       /\ \A k \in DOMAIN value.items :
            /\ value.items[k].j = "array"
            /\ \A x \in DOMAIN value.items[k].items :
                 value.items[k].items[x].j \in {"number", "null"}

\* C16: when the key holds no item, or an item that is not a mapping from names
\* to descriptor lists, loadDB() returns an empty store (and, returning, has
\* raised no error).
C16_CorruptLoadsEmpty ==
  [][(loadRet' # None /\ ~IsTableDocument(storage)) =>
       /\ loadRet'.result.kind # "primitive"
       /\ loadRet'.result.table = <<>>]_vars

\* C16, for the items the try block does reject: no item, the empty string, a
\* text that does not parse, null, and values on which map() or the
\* Float32Array constructor throws
C16_RejectedLoadsEmpty ==
  [][(loadRet' # None /\ storage \in
        {NoItem, EmptyString, Garbage, Document(JNull), Document(JString("abc")),
         Document(JArray(<<JNumber(Fin(1))>>)),
         Document(JObject(<<[name |-> "Alice", value |-> JNumber(Fin(5))]>>)),
         Document(JObject(<<[name |-> "Alice",
                             value |-> JArray(<<JNumber(Fin(-1))>>)]>>))})
       => loadRet'.result = EmptyStore]_vars

\* C17: whenever an enroll call awaits a detection (an iteration has started),
\* 0 <= poseCount < samplesPerPose, the pose plan is not exhausted, and the number
\* collected is poseIdx * samplesPerPose + poseCount; within a call poseIdx never
\* decreases and grows, by one, exactly in the step whose detection brings the
\* pose count to samplesPerPose; a detection that is pushed calls onProgress
\* once, with the number collected as total, and a detection of no face does
\* not; a call that returns without the flag having been cleared under it has
\* collected NumPoses * samplesPerPose descriptors.
C17_PoseProgression ==
  /\ [](\A t \in Tasks :
          LET c == call[t]
              spp == samplesPerPose[c.inst]
          IN (c.kind = "enroll" /\ c.pc = "detect") =>
               /\ 0 <= c.poseCount /\ c.poseCount < spp
               /\ c.poseIdx < NumPoses
               /\ Len(c.collected) = c.poseIdx * spp + c.poseCount
               /\ c.callbacks = Len(c.collected))
  /\ [][\A t \in Tasks :
          LET c == call[t]
              d == call'[t]
              spp == samplesPerPose[c.inst]
              pushed == Len(d.collected) = Len(c.collected) + 1
          IN
          /\ (c.kind = "enroll" /\ InLoop(c) /\ InLoop(d)) =>
               /\ d.poseIdx \in {c.poseIdx, c.poseIdx + 1}
               /\ d.poseIdx = c.poseIdx + 1 <=> (pushed /\ c.poseCount + 1 = spp)
               /\ d.collected # c.collected => pushed /\ c.pc = "detect"
               /\ pushed => /\ d.callbacks = c.callbacks + 1
                            /\ d.progress.total = Len(d.collected)
                            /\ d.progress.poseIdx = c.poseIdx
                            /\ d.progress.poseCount = c.poseCount + 1
               /\ ~pushed => d.callbacks = c.callbacks /\ d.progress = c.progress
          /\ (c.kind = "enroll" /\ InLoop(c) /\ d.pc = "done" /\ ~cancelled[t]) =>
               d.ret = NumPoses * spp]_vars

\* C17 witness: with two samples per pose, an enrollment that nobody stopped has
\* returned twice as many descriptors as there are poses, and stored them
C17_Witness ==
  /\ samplesPerPose[1] = 2
  /\ call[1].kind = "enroll" /\ call[1].pc = "done" /\ ~cancelled[1]
  /\ call[1].ret = NumPoses * 2
  /\ DbHas(db[1], call[1].name) /\ Len(DbGet(db[1], call[1].name)) = NumPoses * 2

\* C18: on a Recognizer at most one detectOne() call is in flight at any time,
\* whatever enroll, verify and stop calls are made.
C18_OneDetectionInFlight ==
  \A i \in Instances :
     Cardinality({t \in Tasks : call[t].inst = i /\ call[t].pc = "detect"}) <= 1

\* C19: on a single Recognizer, once the store has been written, the item under
\* the key is the serialization of the in-memory table, and loads as a table of
\* the same names; every step that changes the table (replace, delete, the end
\* of a successful enroll), and every replace or delete that leaves it as it
\* was, writes that serialization in the same step.
C19_PersistedIsTable ==
  /\ [](storage # NoItem =>
          /\ storage = Serialize(db[1])
          /\ DbNames(loadDB(storage).table) = DbNames(db[1]))
  /\ [][(db'[1] # db[1] \/ storage' # storage) => storage' = Serialize(db'[1])]_vars

\* C19 witness: an enrollment of Alice has returned and stored its sample while
\* Bob was replaced on the same Recognizer; both are in the table and in the item
C19_Witness ==
  /\ call[1].kind = "enroll" /\ call[1].pc = "done" /\ call[1].name = "Alice"
  /\ DbHas(db[1], "Bob") /\ DbGet(db[1], "Bob") = <<Vec(<<6, 8>>)>>
  /\ DbHas(db[1], "Alice") /\ DbGet(db[1], "Alice")[1] = Vec(<<3, 4>>)
  /\ db[1][1].name = "Alice"
  /\ storage = Serialize(db[1])

\* C20: if stop() is called while a call of enroll() or verify() is in progress,
\* be it still in startVideo(), and no other call is made, then the call ends,
\* the running flag is false and the camera is released.
C20_StopNeverLost ==
  call[1].stopAsked ~>
    (Ended(call[1]) /\ ~running[1] /\ srcObject[1] = NoStream /\ liveTracks = {})

=============================================================================
